---- MODULE Spec2Model ----
(***************************************************************************)
(* DTN AI server node (src/node/dtn-ai): the aiohttp request router of     *)
(* server.py together with the processor modules it dispatches to.         *)
(*                                                                         *)
(* Python strings are sequences of tokens (a token stands for one or more  *)
(* characters), so that concatenation is \o, the empty string is <<>> and  *)
(* "sub in s" is the search for a contiguous run of tokens.                *)
(* JSON values are records [k, v] tagged with their Python type.           *)
(***************************************************************************)
EXTENDS Integers, Sequences, FiniteSets, TLC

VARIABLES
    config,      \* self.config: the parsed config.yaml
    installed,   \* the processor modules that import successfully in this deployment
    processors,  \* self.processors: model id -> processor module name
    inflight,    \* handle_request coroutines suspended on asyncio.to_thread
    last,        \* the exchange completed last: request, handler outcome, response
    serving      \* DTNAIServer() is constructed and web.run_app is serving the routes

vars == <<config, installed, processors, inflight, last, serving>>

----------------------------------------------------------------------------
(* Bounds *)

\* number of handle_request coroutines that can be suspended at the same time
MaxInFlight == 1

----------------------------------------------------------------------------
(* JSON values as Python sees them after request.json() *)

JNull == [k |-> "null"]
JNum(n) == [k |-> "num", n |-> n]
JStr(s) == [k |-> "str", s |-> s]
JArr(a) == [k |-> "arr", a |-> a]
JObj(f) == [k |-> "obj", o |-> f]
\* a request body that json.loads cannot parse
NotJson == [k |-> "invalid"]

EmptyDict == [x \in {} |-> JNull]

\* type(v).__name__
PyTypeName(v) ==
    CASE v.k = "null" -> "NoneType"
      [] v.k = "num" -> "int"
      [] v.k = "str" -> "str"
      [] v.k = "arr" -> "list"
      [] OTHER -> "dict"

\* sub in s, for two Python strings
Contains(s, sub) ==
    \E i \in 1..(Len(s) - Len(sub) + 1) : SubSeq(s, i, i + Len(sub) - 1) = sub

\* key in v, for a str key: "in", "notin", or the TypeError Python raises
PyContains(key, v) ==
    CASE v.k = "obj" -> IF key \in DOMAIN v.o THEN "in" ELSE "notin"
      [] v.k = "str" -> IF Contains(v.s, <<key>>) THEN "in" ELSE "notin"
      [] v.k = "arr" -> IF \E i \in DOMAIN v.a : v.a[i] = JStr(<<key>>)
                        THEN "in" ELSE "notin"
      [] OTHER -> "TypeError"

\* str(v) as an f-string renders it (the repr of containers is abbreviated)
PyStr(v) ==
    CASE v.k = "str" -> v.s
      [] v.k = "null" -> <<"None">>
      [] v.k = "num" -> <<ToString(v.n)>>
      [] v.k = "arr" -> <<"[...]">>
      [] OTHER -> <<"{...}">>

\* hash(v) succeeds
Hashable(v) == v.k \in {"null", "num", "str"}

----------------------------------------------------------------------------
(* Exceptions and handler outcomes *)

\* class ApiError of processor_gpt_o3.py, class ApiError of processor_gemini.py and
\* the fallback class of server.py are three distinct classes
GptApiError == "processor_gpt_o3.ApiError"
GeminiApiError == "processor_gemini.ApiError"
FallbackApiError == "server.ProcessorApiError"

\* the outcome of processor.execute_call: a returned pair or a raised exception
\* (sent: the calls made to the upstream provider, in order)
Return(result, result_type, sent) ==
    [kind |-> "return", cls |-> "", message |-> <<>>, error_code |-> "",
     result |-> result, result_type |-> result_type, sent |-> sent]

Raise(cls, message, error_code, sent) ==
    [kind |-> "raise", cls |-> cls, message |-> message, error_code |-> error_code,
     result |-> JNull, result_type |-> JNull, sent |-> sent]

\* the value or the exception of a Python expression
Val(v) == [exc |-> "", msg |-> <<>>, val |-> v]
Exc(cls, msg) == [exc |-> cls, msg |-> msg, val |-> JNull]

\* len(v)
PyLen(v) ==
    CASE v.k = "arr" -> Val(Len(v.a))
      [] v.k = "str" -> Val(Len(v.s))
      [] v.k = "obj" -> Val(Cardinality(DOMAIN v.o))
      [] OTHER -> Exc("TypeError", <<"object of type '", PyTypeName(v), "' has no len()">>)

\* v[0]
PyItem0(v) ==
    CASE v.k = "arr" -> IF Len(v.a) = 0 THEN Exc("IndexError", <<"list index out of range">>)
                        ELSE Val(v.a[1])
      [] v.k = "str" -> IF Len(v.s) = 0 THEN Exc("IndexError", <<"string index out of range">>)
                        ELSE Val(JStr(<<v.s[1]>>))
      [] v.k = "obj" -> Exc("KeyError", <<"0">>)
      [] OTHER -> Exc("TypeError", <<"'", PyTypeName(v), "' object is not subscriptable">>)

RECURSIVE JoinFrom(_, _)
JoinFrom(a, i) ==
    IF i > Len(a) THEN <<>>
    ELSE IF i = Len(a) THEN a[i].s
    ELSE a[i].s \o <<"\n">> \o JoinFrom(a, i + 1)

\* "\n".join(v) for a list v
PyJoin(v) ==
    IF \A i \in DOMAIN v.a : v.a[i].k = "str"
    THEN Val(JStr(JoinFrom(v.a, 1)))
    ELSE Exc("TypeError", <<"sequence item: expected str instance">>)

----------------------------------------------------------------------------
(* Python dict with insertion order: a sequence of [key, value] entries *)

DictHas(d, key) == \E i \in DOMAIN d : d[i].key = key

DictGet(d, key) == d[CHOOSE i \in DOMAIN d : d[i].key = key].value

\* d[key] = value: an existing key keeps its position
DictSet(d, key, value) ==
    IF DictHas(d, key)
    THEN [i \in DOMAIN d |-> IF d[i].key = key THEN [key |-> key, value |-> value] ELSE d[i]]
    ELSE Append(d, [key |-> key, value |-> value])

\* list(d.keys())
DictKeys(d) == [i \in DOMAIN d |-> d[i].key]

----------------------------------------------------------------------------
(* Startup: DTNAIServer.__init__ and load_processors *)

\* (mutation: a model id that is already registered keeps its processor)
LoadOne_first_wins(procs, model_config, mods) ==
    IF model_config.model = <<>> \/ model_config.processor = ""
    THEN procs
    ELSE IF model_config.processor \in mods /\ ~DictHas(procs, model_config.model)
         THEN DictSet(procs, model_config.model, model_config.processor)
         ELSE procs

\* one iteration of the loop of load_processors over self.config['models']
LoadOne(procs, model_config, mods) ==
    IF model_config.model = <<>> \/ model_config.processor = ""
    THEN procs                                     \* warning, continue
    ELSE IF model_config.processor \in mods
         THEN DictSet(procs, model_config.model, model_config.processor)
         ELSE procs                                \* ImportError is logged

RECURSIVE LoadFrom(_, _, _, _)
LoadFrom(procs, models, i, mods) ==
    IF i > Len(models) THEN procs
    ELSE LoadFrom(LoadOne(procs, models[i], mods), models, i + 1, mods)

load_processors(cfg, mods) == LoadFrom(<<>>, cfg, 1, mods)

\* the class server.py binds to the name ProcessorApiError at import time
ProcessorApiError(mods) ==
    IF "processor_gpt_o3" \in mods THEN GptApiError ELSE FallbackApiError

----------------------------------------------------------------------------
(* handle_request *)

Unknown == JStr(<<"unknown">>)
EmptyStr == JStr(<<>>)

\* (mutation: the fields are checked in another order)
required_fields_reordered == <<"model", "requestId", "call">>

required_fields == <<"requestId", "model", "call">>

\* web.json_response({...}, status=status)
json_response(request_id, data, datatype, error, status) ==
    [status |-> status,
     body |-> [requestId |-> request_id, data |-> data, datatype |-> datatype,
               error |-> JStr(error)]]

\* the outer handlers: except json.JSONDecodeError / except Exception
InvalidJsonResponse ==
    json_response(Unknown, EmptyStr, EmptyStr, <<"Invalid JSON in request body">>, 400)

ServerErrorResponse(message) ==
    json_response(Unknown, EmptyStr, EmptyStr, <<"Server error: ">> \o message, 500)

NotIterable(v) == <<"argument of type '", PyTypeName(v), "' is not iterable">>
NoGet(v) == <<"'", PyTypeName(v), "' object has no attribute 'get'">>
BadIndex(v) == <<PyTypeName(v), " indices must be integers">>
Unhashable(v) == <<"unhashable type: '", PyTypeName(v), "'">>

\* the loop over required_fields from index i on: the response it returns, or
\* [returned |-> FALSE] when every field is present
RECURSIVE CheckRequiredFields(_, _)
CheckRequiredFields(body, i) ==
    IF i > Len(required_fields) THEN [returned |-> FALSE]
    ELSE LET field == required_fields[i]
             c == PyContains(field, body)
         IN  IF c = "TypeError"
             THEN [returned |-> TRUE, resp |-> ServerErrorResponse(NotIterable(body))]
             ELSE IF c = "notin"
             THEN IF body.k = "obj"
                  THEN [returned |-> TRUE,
                        resp |-> json_response(
                            IF "requestId" \in DOMAIN body.o
                            THEN body.o["requestId"] ELSE Unknown,
                            EmptyStr, EmptyStr,
                            <<"Missing required field: ", field>>, 400)]
                  ELSE [returned |-> TRUE, resp |-> ServerErrorResponse(NoGet(body))]
             ELSE CheckRequiredFields(body, i + 1)

\* v[key] for a str key
PyGetItem(v, key) ==
    CASE v.k = "obj" -> IF key \in DOMAIN v.o THEN Val(v.o[key])
                        ELSE Exc("KeyError", <<"'", key, "'">>)
      [] v.k \in {"str", "arr"} -> Exc("TypeError", BadIndex(v))
      [] OTHER -> Exc("TypeError", <<"'", PyTypeName(v), "' object is not subscriptable">>)

\* (mutation: and instead of or)
call_incomplete_and(hasP, hasT) == hasP = "notin" /\ hasT = "notin"

\* 'parameters' not in call_data or 'types' not in call_data
call_incomplete(hasP, hasT) == hasP = "notin" \/ hasT = "notin"

IsPrefix(p, s) == Len(p) <= Len(s) /\ SubSeq(s, 1, Len(p)) = p

\* (mutation: the registry is searched for a key that starts with the model id)
resolve_prefix(procs, model_name) ==
    IF model_name.k = "str" /\ \E i \in DOMAIN procs : IsPrefix(model_name.s, procs[i].key)
    THEN [found |-> TRUE,
          processor |-> procs[CHOOSE i \in DOMAIN procs :
                                 /\ IsPrefix(model_name.s, procs[i].key)
                                 /\ \A j \in 1..(i - 1) :
                                       ~IsPrefix(model_name.s, procs[j].key)].value]
    ELSE [found |-> FALSE, processor |-> ""]

\* (mutation: an id that is not registered falls back to the first registered processor)
resolve_default(procs, model_name) ==
    IF model_name.k = "str" /\ DictHas(procs, model_name.s)
    THEN [found |-> TRUE, processor |-> DictGet(procs, model_name.s)]
    ELSE IF Len(procs) > 0 /\ model_name.k = "str"
    THEN [found |-> TRUE, processor |-> procs[1].value]
    ELSE [found |-> FALSE, processor |-> ""]

\* model_name in self.processors, and self.processors[model_name]
resolve(procs, model_name) ==
    IF model_name.k = "str" /\ DictHas(procs, model_name.s)
    THEN [found |-> TRUE, processor |-> DictGet(procs, model_name.s)]
    ELSE [found |-> FALSE, processor |-> ""]

\* handle_request from its entry to its first return or to the await of
\* asyncio.to_thread: [returned |-> TRUE, resp] or the locals of the suspended coroutine
handle_request_enter(body, procs) ==
    IF body.k = "invalid" THEN [returned |-> TRUE, resp |-> InvalidJsonResponse]
    ELSE LET chk == CheckRequiredFields(body, 1) IN
    IF chk.returned THEN chk
    ELSE LET request_id == PyGetItem(body, "requestId")
             model_name == PyGetItem(body, "model")
             call_data  == PyGetItem(body, "call")
         IN
    IF request_id.exc # ""
    THEN [returned |-> TRUE, resp |-> ServerErrorResponse(request_id.msg)]
    ELSE LET hasP == PyContains("parameters", call_data.val)
             hasT == PyContains("types", call_data.val)
         IN
    IF hasP = "TypeError"
    THEN [returned |-> TRUE, resp |-> ServerErrorResponse(NotIterable(call_data.val))]
    ELSE IF call_incomplete(hasP, hasT)
    THEN [returned |-> TRUE,
          resp |-> json_response(request_id.val, EmptyStr, EmptyStr,
                                 <<"Call must contain parameters and types">>, 400)]
    ELSE LET parameters == PyGetItem(call_data.val, "parameters")
             types == PyGetItem(call_data.val, "types")
         IN
    IF parameters.exc # ""
    THEN [returned |-> TRUE, resp |-> ServerErrorResponse(parameters.msg)]
    ELSE IF types.exc # ""
    THEN [returned |-> TRUE, resp |-> ServerErrorResponse(types.msg)]
    ELSE IF ~Hashable(model_name.val)
    THEN [returned |-> TRUE, resp |-> ServerErrorResponse(Unhashable(model_name.val))]
    ELSE LET processor == resolve(procs, model_name.val) IN
    IF ~processor.found
    THEN [returned |-> TRUE,
          resp |-> json_response(request_id.val, EmptyStr, EmptyStr,
                                 <<"Model ">> \o PyStr(model_name.val)
                                     \o <<" not supported">>,
                                 400)]
    ELSE [returned |-> FALSE,
          request_id |-> request_id.val,
          model_name |-> model_name.val.s,
          parameters |-> parameters.val,
          types |-> types.val,
          processor |-> processor.processor]

\* not v, for a JSON value
Falsy(v) ==
    CASE v.k = "null" -> TRUE
      [] v.k = "num" -> v.n = 0
      [] v.k = "str" -> v.s = <<>>
      [] v.k = "arr" -> v.a = <<>>
      [] OTHER -> DOMAIN v.o = {}

\* (mutation: 'data': result or '')
handle_request_resume_default(request_id, outcome, api_error) ==
    IF outcome.kind = "return"
    THEN json_response(request_id,
                       IF Falsy(outcome.result) THEN EmptyStr ELSE outcome.result,
                       outcome.result_type, <<>>, 200)
    ELSE IF outcome.cls = api_error
    THEN json_response(request_id, EmptyStr, EmptyStr, outcome.message, 400)
    ELSE json_response(request_id, EmptyStr, EmptyStr,
                       <<"Processing error: ">> \o outcome.message, 500)

\* (mutation: every exception is answered as the typed API error is)
handle_request_resume_all_400(request_id, outcome, api_error) ==
    IF outcome.kind = "return"
    THEN json_response(request_id, outcome.result, outcome.result_type, <<>>, 200)
    ELSE json_response(request_id, EmptyStr, EmptyStr, outcome.message, 400)

\* (mutation: no except Exception clause, aiohttp answers the unhandled exception)
handle_request_resume_propagates(request_id, outcome, api_error) ==
    IF outcome.kind = "return"
    THEN json_response(request_id, outcome.result, outcome.result_type, <<>>, 200)
    ELSE IF outcome.cls = api_error
    THEN json_response(request_id, EmptyStr, EmptyStr, outcome.message, 400)
    ELSE [status |-> 500, body |-> [text |-> <<"500 Internal Server Error">>]]

\* handle_request after the await: the response built from the outcome of execute_call
handle_request_resume(request_id, outcome, api_error) ==
    IF outcome.kind = "return"
    THEN json_response(request_id, outcome.result, outcome.result_type, <<>>, 200)
    ELSE IF outcome.cls = api_error
    THEN json_response(request_id, EmptyStr, EmptyStr, outcome.message, 400)
    ELSE json_response(request_id, EmptyStr, EmptyStr,
                       <<"Processing error: ">> \o outcome.message, 500)

\* (mutation: the models of config.yaml are listed, loaded or not)
health_response_configured(procs) ==
    [status |-> 200,
     body |-> [status |-> "healthy", models |-> [i \in DOMAIN config |-> config[i].model]]]

\* health_check
health_response(procs) ==
    [status |-> 200, body |-> [status |-> "healthy", models |-> DictKeys(procs)]]

----------------------------------------------------------------------------
(* The upstream providers, as the processors see them.  up is what the      *)
(* provider does during one execute_call:                                   *)
(*   api_key   the API key is set in the environment                        *)
(*   reply     what the (first) generation call does                        *)
(*   retry     what the generation call after sanitization does             *)
(*   sanitized the sanitizer call returned a non-empty text                 *)

UpstreamText == <<"generated text">>
UpstreamImage == <<"aW1hZ2U=">>
UpstreamError == <<"upstream unavailable">>
ModerationError == <<"rejected by safety system">>
SanitizedSuffix == <<" (sanitized)">>

TypeString == JStr(<<"string">>)
TypeStringArray == JStr(<<"string[]">>)

----------------------------------------------------------------------------
(* processor_gpt_o3.py *)

\* _translate_model_name
gpt_translate_model_name(model) ==
    IF Contains(model, <<"gpt-5">>) THEN Val(<<"gpt-5">>)
    ELSE IF Contains(model, <<"gpt-5", "-mini">>) THEN Val(<<"gpt-5", "-mini">>)
    ELSE IF Contains(model, <<"gpt-5", "-nano">>) THEN Val(<<"gpt-5", "-nano">>)
    ELSE IF Contains(model, <<"image">>) THEN Val(<<"gpt-image-1">>)
    ELSE Exc("ValueError", <<"Unknown model name: ">> \o model)

\* the parameter checks and the prompt both _handle_*_generation share:
\* the prompt, or the outcome raised before the try block
gpt_prompt(parameters, types, what) ==
    LET n == PyLen(parameters) IN
    IF n.exc # "" THEN [raised |-> TRUE, outcome |-> Raise(n.exc, n.msg, "", <<>>)]
    ELSE IF n.val < 1
    THEN [raised |-> TRUE,
          outcome |-> Raise(GptApiError,
                            <<what, " generation requires at least 1 parameter (prompt)">>,
                            "INVALID_PARAMETERS", <<>>)]
    ELSE LET parameter == PyItem0(parameters) IN
    IF parameter.exc # ""
    THEN [raised |-> TRUE, outcome |-> Raise(parameter.exc, parameter.msg, "", <<>>)]
    ELSE LET tn == PyLen(types) IN
    IF tn.exc # "" THEN [raised |-> TRUE, outcome |-> Raise(tn.exc, tn.msg, "", <<>>)]
    ELSE LET t0 == IF tn.val < 1 THEN Val(JNull) ELSE PyItem0(types) IN
    IF t0.exc # "" THEN [raised |-> TRUE, outcome |-> Raise(t0.exc, t0.msg, "", <<>>)]
    ELSE IF tn.val < 1 \/ (t0.val # TypeString /\ t0.val # TypeStringArray)
    THEN [raised |-> TRUE,
          outcome |-> Raise(GptApiError,
                            <<"First parameter must be a string or string[] (prompt)">>,
                            "INVALID_PARAMETERS", <<>>)]
    ELSE LET prompt == IF parameter.val.k = "arr" THEN PyJoin(parameter.val)
                       ELSE PyItem0(parameter.val) IN
    IF prompt.exc # ""
    THEN [raised |-> TRUE, outcome |-> Raise(prompt.exc, prompt.msg, "", <<>>)]
    ELSE [raised |-> FALSE, prompt |-> prompt.val.s]

\* the except clause that ends _handle_text_generation / _handle_image_generation
gpt_wrap(what, code, message, sent) ==
    Raise(GptApiError, <<what, " generation failed: ">> \o message, code, sent)

\* _handle_text_generation
gpt_handle_text_generation(parameters, model, types, up) ==
    LET p == gpt_prompt(parameters, types, "Text") IN
    IF p.raised THEN p.outcome
    ELSE IF ~up.api_key
    THEN gpt_wrap("Text", "TEXT_GENERATION_ERROR",
                  <<"OPENAI_API_KEY environment variable is required">>, <<>>)
    ELSE LET name == gpt_translate_model_name(model) IN
    IF name.exc # "" THEN gpt_wrap("Text", "TEXT_GENERATION_ERROR", name.msg, <<>>)
    ELSE LET sent == <<[model |-> name.val, prompt |-> p.prompt]>> IN
    IF up.reply = "content" THEN Return(JStr(UpstreamText), TypeString, sent)
    ELSE IF up.reply = "empty"
    THEN gpt_wrap("Text", "TEXT_GENERATION_ERROR",
                  <<"No response generated from OpenAI API">>, sent)
    ELSE gpt_wrap("Text", "TEXT_GENERATION_ERROR", UpstreamError, sent)

\* _handle_image_generation; _generate, _is_moderation_error and _sanitize_prompt inline
gpt_handle_image_generation(parameters, types, up) ==
    LET p == gpt_prompt(parameters, types, "Image") IN
    IF p.raised THEN p.outcome
    ELSE IF ~up.api_key
    THEN gpt_wrap("Image", "IMAGE_GENERATION_ERROR",
                  <<"OPENAI_API_KEY environment variable is required">>, <<>>)
    ELSE LET first == <<[model |-> <<"gpt-image-1">>, prompt |-> p.prompt]>>
             nodata == <<"No image data in gpt-image-1 response">>
         IN
    IF up.reply = "content" THEN Return(JStr(UpstreamImage), JStr(<<"bytes">>), first)
    ELSE IF up.reply = "empty" THEN gpt_wrap("Image", "IMAGE_GENERATION_ERROR", nodata, first)
    ELSE IF up.reply = "moderation"
    THEN LET sanitized == IF up.sanitized THEN p.prompt \o SanitizedSuffix ELSE p.prompt
             clean == <<[model |-> <<"gpt-5", "-nano">>, prompt |-> p.prompt]>>
             sent == first \o clean
                     \o <<[model |-> <<"gpt-image-1">>, prompt |-> sanitized]>>
         IN  IF up.retry = "content"
             THEN Return(JStr(UpstreamImage), JStr(<<"bytes">>), sent)
             ELSE IF up.retry = "empty"
             THEN gpt_wrap("Image", "IMAGE_GENERATION_ERROR", nodata, sent)
             ELSE IF up.retry = "moderation"
             THEN gpt_wrap("Image", "IMAGE_GENERATION_ERROR", ModerationError, sent)
             ELSE gpt_wrap("Image", "IMAGE_GENERATION_ERROR", UpstreamError, sent)
    ELSE gpt_wrap("Image", "IMAGE_GENERATION_ERROR", UpstreamError, first)

\* execute_call
gpt_execute_call(model, parameters, types, up) ==
    IF Contains(model, <<"gpt-5">>) THEN gpt_handle_text_generation(parameters, model, types, up)
    ELSE IF Contains(model, <<"image">>) THEN gpt_handle_image_generation(parameters, types, up)
    ELSE Raise("ValueError", <<"Unknown model type: ">> \o model, "", <<>>)

----------------------------------------------------------------------------
(* processor_gemini.py *)

\* _translate_model_name
gemini_translate_model_name(model) ==
    IF Contains(model, <<"google-gemini-1_5-pro">>) THEN Val(<<"models/gemini-1.5-pro-latest">>)
    ELSE IF Contains(model, <<"google-gemini-1_5-flash">>)
    THEN Val(<<"models/gemini-1.5-flash-latest">>)
    ELSE IF Contains(model, <<"google-gemini-2_5-pro">>) THEN Val(<<"models/gemini-2.5-pro">>)
    ELSE IF Contains(model, <<"google-gemini-2_5-flash", "-lite">>)
    THEN Val(<<"models/gemini-2.5-flash", "-lite">>)
    ELSE IF Contains(model, <<"google-gemini-2_5-flash">>)
    THEN Val(<<"models/gemini-2.5-flash">>)
    ELSE Exc("ValueError", <<"Unknown model name: ">> \o model)

\* the two except clauses that end _handle_text_generation
gemini_wrap(message, sent) ==
    Raise(GeminiApiError, <<"Text generation failed: ">> \o message,
          "TEXT_GENERATION_ERROR", sent)

\* _handle_text_generation, generate inline
gemini_handle_text_generation(parameters, model, types, up) ==
    LET n == PyLen(parameters) IN
    IF n.exc # "" THEN Raise(n.exc, n.msg, "", <<>>)
    ELSE IF n.val < 1
    THEN Raise(GeminiApiError, <<"Text generation requires at least 1 parameter (prompt)">>,
               "INVALID_PARAMETERS", <<>>)
    ELSE LET parameter == PyItem0(parameters) IN
    IF parameter.exc # "" THEN Raise(parameter.exc, parameter.msg, "", <<>>)
    ELSE LET tn == PyLen(types) IN
    IF tn.exc # "" THEN Raise(tn.exc, tn.msg, "", <<>>)
    ELSE LET t0 == IF tn.val < 1 THEN Val(JNull) ELSE PyItem0(types) IN
    IF t0.exc # "" THEN Raise(t0.exc, t0.msg, "", <<>>)
    ELSE IF tn.val < 1 \/ (t0.val # TypeString /\ t0.val # TypeStringArray)
    THEN Raise(GeminiApiError, <<"First parameter must be a string or string[] (prompt)">>,
               "INVALID_PARAMETERS", <<>>)
    ELSE LET prompt == IF parameter.val.k = "arr" THEN PyJoin(parameter.val)
                       ELSE parameter IN
    IF prompt.exc # "" THEN Raise(prompt.exc, prompt.msg, "", <<>>)
    ELSE LET name == gemini_translate_model_name(model) IN
    IF name.exc # "" THEN gemini_wrap(name.msg, <<>>)
    ELSE IF ~up.api_key THEN gemini_wrap(<<"Missing key inputs argument">>, <<>>)
    ELSE IF prompt.val.k # "str" THEN gemini_wrap(<<"Input should be a valid string">>, <<>>)
    ELSE LET sent == <<[model |-> name.val, prompt |-> prompt.val.s]>> IN
    IF up.reply = "content" THEN Return(JStr(UpstreamText), TypeString, sent)
    ELSE IF up.reply = "empty"
    THEN gemini_wrap(<<"No response generated from Gemini API">>, sent)
    ELSE gemini_wrap(UpstreamError, sent)

\* execute_call
gemini_execute_call(model, parameters, types, up) ==
    gemini_handle_text_generation(parameters, model, types, up)

----------------------------------------------------------------------------
(* Any other processor module config.yaml names: execute_call may return    *)
(* any pair or raise any exception.  This one echoes its arguments, or      *)
(* raises what up.reply says.                                               *)

other_execute_call(model, parameters, types, up) ==
    IF up.reply = "content" THEN Return(parameters, types, <<>>)
    ELSE IF up.reply = "api_error"
    THEN Raise(GptApiError, <<"bad prompt">>, "INVALID_PARAMETERS", <<>>)
    ELSE IF up.reply = "api_error_empty"
    THEN Raise(GptApiError, <<>>, "INVALID_PARAMETERS", <<>>)
    ELSE Raise("ZeroDivisionError", <<"division by zero">>, "", <<>>)

\* processor.execute_call(model_name, parameters, types) on the worker thread
execute_call(processor, model, parameters, types, up) ==
    CASE processor = "processor_gpt_o3" -> gpt_execute_call(model, parameters, types, up)
      [] processor = "processor_gemini" -> gemini_execute_call(model, parameters, types, up)
      [] OTHER -> other_execute_call(model, parameters, types, up)

----------------------------------------------------------------------------
(* The deployments and the requests explored *)

GptTextModel == <<"model.system.openai-", "gpt-5">>
GeminiModel == <<"model.system.", "google-gemini-2_5-flash">>
EchoModel == <<"m.echo">>
\* two ids never registered; the second is a prefix of registered ids
MissingModel == <<"m.missing">>
PrefixModel == <<"model.system.">>

AllModules == {"processor_gpt_o3", "processor_gemini", "processor_echo"}

FullConfig ==
    << [model |-> GptTextModel, processor |-> "processor_gpt_o3"],
       [model |-> GeminiModel, processor |-> "processor_gemini"],
       [model |-> EchoModel, processor |-> "processor_echo"] >>

\* entries without a model or a processor, a module that is not there, an id listed twice
OddConfig ==
    << [model |-> <<>>, processor |-> "processor_gemini"],
       [model |-> MissingModel, processor |-> ""],
       [model |-> GptTextModel, processor |-> "processor_gpt_o3"],
       [model |-> EchoModel, processor |-> "processor_gemini"],
       [model |-> GeminiModel, processor |-> "processor_gemini"],
       [model |-> EchoModel, processor |-> "processor_echo"],
       [model |-> EchoModel, processor |-> "processor_missing"] >>

\* a deployment with every dependency, and one where the openai package is missing
Deployments ==
    { [config |-> FullConfig, installed |-> AllModules],
      [config |-> OddConfig, installed |-> AllModules \ {"processor_gpt_o3"}] }

Prompt == JStr(<<"h", "i">>)

RequestIdValues == {JStr(<<"t1">>)}

ModelValues ==
    {JStr(GptTextModel), JStr(GeminiModel), JStr(EchoModel), JStr(PrefixModel), JArr(<<>>)}

CallValues ==
    {JNull, JStr(<<"parameters", " ", "types">>),
     JObj([parameters |-> JArr(<<Prompt>>)]),
     JObj([types |-> JArr(<<TypeString>>)]),
     JObj([parameters |-> JArr(<<Prompt>>), types |-> JArr(<<TypeString>>)]),
     JObj([parameters |-> JArr(<<>>), types |-> JArr(<<>>)]),
     JObj([parameters |-> JNull, types |-> JArr(<<TypeString>>)])}

FieldValues(field) ==
    CASE field = "requestId" -> RequestIdValues
      [] field = "model" -> ModelValues
      [] OTHER -> CallValues

\* the JSON objects with any subset of the three fields
ObjectBodies ==
    UNION { { JObj(f) : f \in { g \in [S -> RequestIdValues \cup ModelValues \cup CallValues] :
                                \A field \in S : g[field] \in FieldValues(field) } } :
            S \in SUBSET {"requestId", "model", "call"} }

Bodies == {NotJson, JNull, JStr(<<"requestId", "model", "call">>)} \cup ObjectBodies

Replies == {"content", "empty", "error", "api_error", "api_error_empty"}

\* each reply with the API key set, and the key missing (no reply is reached then)
Upstreams ==
    [api_key : {TRUE}, reply : Replies, retry : {"content"}, sanitized : {TRUE}]
        \cup {[api_key |-> FALSE, reply |-> "content", retry |-> "content",
                sanitized |-> TRUE]}

----------------------------------------------------------------------------
(* The server *)

NoOutcome == [kind |-> "none"]
Idle == [pc |-> "idle"]

Init ==
    /\ \E d \in Deployments :
          /\ config = d.config
          /\ installed = d.installed
          /\ processors = load_processors(d.config, d.installed)
    /\ inflight = [i \in 1..MaxInFlight |-> Idle]
    /\ last = [op |-> "none"]
    /\ serving = TRUE

FreeSlots == {i \in DOMAIN inflight : inflight[i].pc = "idle"}

\* execute_call invoked on the event loop itself: the loop serves nothing until it ends
loop_blocked_inline(slots) == \E i \in DOMAIN slots : slots[i].pc = "awaiting"

\* the event loop is held by a handler invocation: never, execute_call runs on a worker
\* thread (asyncio.to_thread) and handle_request only awaits it
loop_blocked(slots) == FALSE

\* handle_request suspended on the worker thread it has started for the request
Suspended(body, r) ==
    [pc |-> "awaiting", body |-> body, request_id |-> r.request_id,
     model_name |-> r.model_name, parameters |-> r.parameters,
     types |-> r.types, processor |-> r.processor, calls |-> 1]

\* request_id kept where every coroutine writes it: the newest suspended request's
coroutine_shared(slots, i) ==
    LET newest == CHOOSE j \in DOMAIN slots :
                     /\ slots[j].pc = "awaiting"
                     /\ \A h \in DOMAIN slots : slots[h].pc = "awaiting" => h <= j
    IN  [slots[i] EXCEPT !.request_id = slots[newest].request_id]

\* request_id, model_name, call, parameters, types and processor are locals of
\* handle_request: the coroutine that resumes reads its own
coroutine(slots, i) == slots[i]

\* a failed invocation is tried once more
handle_request_retrying(c, outcome, api_error) ==
    IF outcome.kind = "raise" /\ c.calls < 2
    THEN [returned |-> FALSE, calls |-> c.calls + 1]
    ELSE [returned |-> TRUE, resp |-> handle_request_resume(c.request_id, outcome, api_error)]

\* handle_request after the await of coroutine c has ended with outcome: every branch
\* returns a response, none goes back to execute_call
handle_request_after_await(c, outcome, api_error) ==
    [returned |-> TRUE, resp |-> handle_request_resume(c.request_id, outcome, api_error)]

\* POST /api/request arrives: handle_request runs to its first return, or suspends on
\* the worker thread it has started
HandleRequest(body) ==
    /\ serving
    /\ ~loop_blocked(inflight)
    /\ LET r == handle_request_enter(body, processors) IN
       IF r.returned
       THEN /\ last' = [op |-> "post", body |-> body, calls |-> 0, outcome |-> NoOutcome,
                        resp |-> r.resp]
            /\ UNCHANGED <<config, installed, processors, inflight, serving>>
       ELSE /\ FreeSlots # {}
            /\ LET i == CHOOSE j \in FreeSlots : \A h \in FreeSlots : j <= h IN
               inflight' = [inflight EXCEPT ![i] = Suspended(body, r)]
            /\ UNCHANGED <<config, installed, processors, last, serving>>

\* the worker thread of slot i finishes execute_call and handle_request resumes
ExecuteCallDone(i, up) ==
    /\ serving
    /\ inflight[i].pc = "awaiting"
    /\ up.reply \in {"api_error", "api_error_empty"} => "processor_gpt_o3" \in installed
    /\ LET c == coroutine(inflight, i)
           outcome == execute_call(c.processor, c.model_name, c.parameters, c.types, up)
           r == handle_request_after_await(c, outcome, ProcessorApiError(installed))
       IN  IF r.returned
           THEN /\ last' = [op |-> "post", body |-> c.body, calls |-> c.calls,
                            outcome |-> outcome, resp |-> r.resp, up |-> up]
                /\ inflight' = [inflight EXCEPT ![i] = Idle]
           ELSE /\ inflight' = [inflight EXCEPT ![i].calls = r.calls]
                /\ UNCHANGED last
    /\ UNCHANGED <<config, installed, processors, serving>>

\* GET /health
HealthCheck ==
    /\ serving
    /\ ~loop_blocked(inflight)
    /\ last' = [op |-> "health", resp |-> health_response(processors)]
    /\ UNCHANGED <<config, installed, processors, inflight, serving>>

Next ==
    \/ \E body \in Bodies : HandleRequest(body)
    \/ \E i \in DOMAIN inflight, up \in Upstreams : ExecuteCallDone(i, up)
    \/ HealthCheck

Spec == Init /\ [][Next]_vars


----------------------------------------------------------------------------
(* Startup on its own: DTNAIServer.__init__ has read config.yaml and set    *)
(* self.processors = {}; load_processors then runs over any config         *)

\* number of entries of config['models']
MaxModels == 3

\* the openai package is missing: import processor_gpt_o3 raises ImportError
LoadModules == AllModules \ {"processor_gpt_o3"}

LoadEntries ==
    [model : {<<>>, EchoModel, GeminiModel},
     processor : {"", "processor_echo", "processor_gemini", "processor_gpt_o3"}]

LoadConfigs == UNION { [1..n -> LoadEntries] : n \in 0..MaxModels }

InitLoad ==
    /\ config \in LoadConfigs
    /\ installed = LoadModules
    /\ processors = <<>>
    /\ inflight = [i \in {1} |-> Idle]
    /\ last = [op |-> "none"]
    /\ serving = FALSE

\* self.load_processors(), then main() starts serving
LoadProcessors ==
    /\ ~serving
    /\ processors' = load_processors(config, installed)
    /\ serving' = TRUE
    /\ UNCHANGED <<config, installed, inflight, last>>

NextLoad == LoadProcessors

SpecLoad == InitLoad /\ [][NextLoad]_vars

----------------------------------------------------------------------------
(* Concurrent valid requests: two request ids, two prompts, several         *)
(* coroutines suspended at once                                             *)

Prompt2 == JStr(<<"y", "o">>)

ConcBody(request_id, model, prompt) ==
    JObj([requestId |-> request_id, model |-> JStr(model),
          call |-> JObj([parameters |-> JArr(<<prompt>>), types |-> JArr(<<TypeString>>)])])

ConcBodies ==
    { ConcBody(request_id, model, prompt) :
        request_id \in {JStr(<<"t1">>), JStr(<<"t2">>)},
        model \in {EchoModel, GptTextModel, GeminiModel},
        prompt \in {Prompt, Prompt2} }

ConcUpstreams == [api_key : {TRUE}, reply : {"content", "error"}, retry : {"content"},
                  sanitized : {TRUE}]

InitConc ==
    /\ config = FullConfig
    /\ installed = AllModules
    /\ processors = load_processors(FullConfig, AllModules)
    /\ inflight = [i \in 1..(MaxInFlight + 1) |-> Idle]
    /\ last = [op |-> "none"]
    /\ serving = TRUE

NextConc ==
    \/ \E body \in ConcBodies : HandleRequest(body)
    \/ \E i \in DOMAIN inflight, up \in ConcUpstreams : ExecuteCallDone(i, up)
    \/ HealthCheck

SpecConc == InitConc /\ [][NextConc]_vars

----------------------------------------------------------------------------
(* Termination of the handler invocations *)

\* one request for each return statement of handle_request: a body that is no JSON, a
\* body that is no object, a missing field, a call without types, an unregistered
\* model, and a valid request of each registered model
FairBodies ==
    { NotJson, JNull,
      JObj([requestId |-> JStr(<<"t1">>)]),
      JObj([requestId |-> JStr(<<"t1">>), model |-> JStr(EchoModel),
            call |-> JObj([parameters |-> JArr(<<Prompt>>)])]),
      ConcBody(JStr(<<"t1">>), PrefixModel, Prompt),
      ConcBody(JStr(<<"t1">>), EchoModel, Prompt),
      ConcBody(JStr(<<"t1">>), GptTextModel, Prompt),
      ConcBody(JStr(<<"t1">>), GeminiModel, Prompt) }

NextFair ==
    \/ \E body \in FairBodies : HandleRequest(body)
    \/ \E i \in DOMAIN inflight, up \in Upstreams : ExecuteCallDone(i, up)
    \/ HealthCheck

\* every handler invocation terminates: the worker thread of each slot ends
FairSpec ==
    /\ Init /\ [][NextFair]_vars
    /\ \A i \in 1..MaxInFlight : WF_vars(\E up \in Upstreams : ExecuteCallDone(i, up))

----------------------------------------------------------------------------
(* The processors on their own: handle_request has started execute_call for *)
(* one valid request, of any of the models, parameters and types below, and *)
(* the upstream provider does any of the things below                       *)

GptImageModel == <<"model.system.openai-", "gpt-o3-simple", "image">>
\* registered to processor_gpt_o3, with neither "gpt-5" nor "image" in it
GptLegacyModel == <<"model.system.openai-", "gpt-o3-simpletext">>

ProcConfig ==
    << [model |-> GptTextModel, processor |-> "processor_gpt_o3"],
       [model |-> GptImageModel, processor |-> "processor_gpt_o3"],
       [model |-> GptLegacyModel, processor |-> "processor_gpt_o3"],
       [model |-> GeminiModel, processor |-> "processor_gemini"] >>

ProcParameters ==
    { JArr(<<>>), JArr(<<Prompt>>), JArr(<<JStr(<<"x">>)>>), JArr(<<EmptyStr>>),
      JArr(<<JArr(<<JStr(<<"a">>), JStr(<<"b">>)>>)>>) }

ProcTypes ==
    { JArr(<<>>), JArr(<<TypeString>>), JArr(<<TypeStringArray>>),
      JArr(<<JStr(<<"uint64">>)>>) }

ProcBodies ==
    { JObj([requestId |-> JStr(<<"t1">>), model |-> JStr(ProcConfig[m].model),
            call |-> JObj([parameters |-> parameters, types |-> types])]) :
        m \in DOMAIN ProcConfig, parameters \in ProcParameters, types \in ProcTypes }

ProcUpstreams ==
    [api_key : BOOLEAN, reply : {"content", "empty", "error", "moderation"},
     retry : {"content", "empty", "error"}, sanitized : BOOLEAN]

InitProc ==
    /\ config = ProcConfig
    /\ installed = AllModules
    /\ processors = load_processors(ProcConfig, AllModules)
    /\ \E body \in ProcBodies :
          inflight = [i \in {1} |->
                         Suspended(body, handle_request_enter(
                                             body, load_processors(ProcConfig, AllModules)))]
    /\ last = [op |-> "none"]
    /\ serving = TRUE

NextProc == \E up \in ProcUpstreams : ExecuteCallDone(1, up)

SpecProc == InitProc /\ [][NextProc]_vars

----------------------------------------------------------------------------
(* Model-name translation: execute_call has been started for a valid        *)
(* request of one model id of each kind the translation functions name      *)

GptMiniModel == <<"model.system.openai-", "gpt-5", "-mini">>
GptNanoModel == <<"model.system.openai-", "gpt-5", "-nano">>
Gemini15ProModel == <<"model.system.", "google-gemini-1_5-pro">>
Gemini15FlashModel == <<"model.system.", "google-gemini-1_5-flash">>
Gemini25ProModel == <<"model.system.", "google-gemini-2_5-pro">>
GeminiLiteModel == <<"model.system.", "google-gemini-2_5-flash", "-lite">>

TranslateConfig ==
    << [model |-> GptTextModel, processor |-> "processor_gpt_o3"],
       [model |-> GptMiniModel, processor |-> "processor_gpt_o3"],
       [model |-> GptNanoModel, processor |-> "processor_gpt_o3"],
       [model |-> Gemini15ProModel, processor |-> "processor_gemini"],
       [model |-> Gemini15FlashModel, processor |-> "processor_gemini"],
       [model |-> Gemini25ProModel, processor |-> "processor_gemini"],
       [model |-> GeminiLiteModel, processor |-> "processor_gemini"],
       [model |-> GeminiModel, processor |-> "processor_gemini"] >>

TranslateBodies ==
    { ConcBody(JStr(<<"t1">>), TranslateConfig[m].model, prompt) :
        m \in DOMAIN TranslateConfig, prompt \in {Prompt, JStr(<<"x">>)} }

InitTranslate ==
    /\ config = TranslateConfig
    /\ installed = AllModules
    /\ processors = load_processors(TranslateConfig, AllModules)
    /\ \E body \in TranslateBodies :
          inflight = [i \in {1} |->
                         Suspended(body, handle_request_enter(
                                             body, load_processors(TranslateConfig,
                                                                   AllModules)))]
    /\ last = [op |-> "none"]
    /\ serving = TRUE

NextTranslate == \E up \in ProcUpstreams : ExecuteCallDone(1, up)

SpecTranslate == InitTranslate /\ [][NextTranslate]_vars

----------------------------------------------------------------------------
(* Vocabulary of the properties *)

\* the exchange completed last is a POST /api/request
Posted == last.op = "post"

HasField(body, field) == body.k = "obj" /\ field \in DOMAIN body.o

\* requestId, model and call are present, and call is an object with parameters and types
ValidEnvelope(body) ==
    /\ \A field \in {"requestId", "model", "call"} : HasField(body, field)
    /\ HasField(body.o["call"], "parameters")
    /\ HasField(body.o["call"], "types")

\* the model of the request is a key of the registry
Registered(body) ==
    /\ HasField(body, "model")
    /\ body.o["model"].k = "str"
    /\ \E i \in DOMAIN processors : processors[i].key = body.o["model"].s

\* the classes of typed API errors: each carries a message and an error code
ApiErrorClasses == {GptApiError, GeminiApiError, FallbackApiError}

\* the handler failed with a typed API error (message and error code)
TypedFailure(outcome) ==
    outcome.kind = "raise" /\ outcome.cls \in ApiErrorClasses /\ outcome.error_code # ""

UntypedFailure(outcome) == outcome.kind = "raise" /\ outcome.cls \notin ApiErrorClasses

\* the response is a failure envelope: data and datatype are empty strings
EmptyPayload(resp) == resp.body.data = EmptyStr /\ resp.body.datatype = EmptyStr

----------------------------------------------------------------------------
(* Properties *)

\* C1: whichever registered handler fails with a typed API error of message m, the
\* response is HTTP 400 with error = m verbatim, data = "" and datatype = "".
C1_TypedErrorIs400Verbatim ==
    (Posted /\ TypedFailure(last.outcome)) =>
        /\ last.resp.status = 400
        /\ last.resp.body.error = JStr(last.outcome.message)
        /\ EmptyPayload(last.resp)

\* C2: a response to a JSON object body that contains requestId carries that requestId,
\* on every path.
C2_RequestIdEchoed ==
    (Posted /\ HasField(last.body, "requestId")) =>
        last.resp.body.requestId = last.body.o["requestId"]

\* the request is rejected for its shape: the body is not a JSON object, a top-level
\* field is missing, or call lacks or cannot supply parameters and types
ShapeRejected(body) == ~ValidEnvelope(body)

\* C3: a request rejected for a transport/shape reason is answered with HTTP 400, never
\* 500, and no handler has been invoked for it.
C3_ShapeErrorsAre400 ==
    (Posted /\ ShapeRejected(last.body)) => (last.resp.status = 400 /\ last.calls = 0)

\* C4: when the handler returns (result, resultType), the response is HTTP 200 with the
\* request's requestId, data = result, datatype = resultType and error = "".
C4_SuccessEnvelope ==
    (Posted /\ last.outcome.kind = "return") =>
        /\ ValidEnvelope(last.body) /\ Registered(last.body)
        /\ last.resp.status = 200
        /\ last.resp.body.requestId = last.body.o["requestId"]
        /\ last.resp.body.data = last.outcome.result
        /\ last.resp.body.datatype = last.outcome.result_type
        /\ last.resp.body.error = EmptyStr

C4_Witness ==
    /\ Posted /\ last.outcome.kind = "return"
    /\ last.outcome.result = JStr(UpstreamText)
    /\ last.resp.status = 200

\* C5: when the handler fails with an error that is not a typed API error, the response
\* is HTTP 500 with the request's requestId, empty data and datatype, and error equal to
\* "Processing error: " followed by the failure's message.
C5_UntypedErrorIs500 ==
    (Posted /\ UntypedFailure(last.outcome)) =>
        /\ last.resp.status = 500
        /\ last.resp.body.requestId = last.body.o["requestId"]
        /\ EmptyPayload(last.resp)
        /\ last.resp.body.error = JStr(<<"Processing error: ">> \o last.outcome.message)

\* len(parameters) raises TypeError in the GPT handler (parameters is null)
C5_Witness ==
    /\ Posted /\ UntypedFailure(last.outcome)
    /\ last.outcome.cls = "TypeError"
    /\ last.body.o["model"] = JStr(GptTextModel)
    /\ last.resp.status = 500

\* C6: a structurally valid envelope whose model is not exactly a key of the registry is
\* answered with HTTP 400, an error containing the model id, empty data and datatype, and
\* the request's requestId.
C6_UnsupportedModel ==
    (Posted /\ ValidEnvelope(last.body) /\ last.body.o["model"].k = "str"
            /\ ~Registered(last.body)) =>
        /\ last.resp.status = 400
        /\ Contains(last.resp.body.error.s, last.body.o["model"].s)
        /\ EmptyPayload(last.resp)
        /\ last.resp.body.requestId = last.body.o["requestId"]

\* the unregistered id is a prefix of registered ids
C6_Witness ==
    /\ Posted /\ ValidEnvelope(last.body) /\ ~Registered(last.body)
    /\ last.body.o["model"] = JStr(PrefixModel)
    /\ \E i \in DOMAIN processors : Contains(processors[i].key, PrefixModel)
    /\ last.resp.status = 400

\* the first field, in the order requestId, model, call, that the body does not have
FirstMissing(body) ==
    IF ~HasField(body, "requestId") THEN "requestId"
    ELSE IF ~HasField(body, "model") THEN "model" ELSE "call"

\* C7: a JSON object missing one of requestId, model, call is answered with HTTP 400 and
\* a non-empty error naming the first missing field in the order requestId, model, call;
\* the response requestId is "unknown" when requestId is missing, the request's otherwise.
C7_MissingField ==
    (Posted /\ last.body.k = "obj"
            /\ \E field \in {"requestId", "model", "call"} : ~HasField(last.body, field)) =>
        /\ last.resp.status = 400
        /\ last.resp.body.error # EmptyStr
        /\ Contains(last.resp.body.error.s, <<FirstMissing(last.body)>>)
        /\ \A field \in {"requestId", "model", "call"} \ {FirstMissing(last.body)} :
              ~Contains(last.resp.body.error.s, <<field>>)
        /\ last.resp.body.requestId =
              IF HasField(last.body, "requestId") THEN last.body.o["requestId"] ELSE Unknown

\* requestId is present, model and call are both missing
C7_Witness ==
    /\ Posted /\ HasField(last.body, "requestId")
    /\ ~HasField(last.body, "model") /\ ~HasField(last.body, "call")
    /\ last.resp.body.error = JStr(<<"Missing required field: ", "model">>)

\* C8: an envelope with requestId, model and call whose call lacks parameters or lacks
\* types is answered with HTTP 400, the invalid-call error, empty data and datatype and
\* the request's requestId, also when the model is not registered.
C8_InvalidCall ==
    (Posted /\ (\A field \in {"requestId", "model", "call"} : HasField(last.body, field))
            /\ last.body.o["call"].k = "obj"
            /\ (~HasField(last.body.o["call"], "parameters")
                \/ ~HasField(last.body.o["call"], "types"))) =>
        /\ last.resp.status = 400
        /\ last.resp.body.error = JStr(<<"Call must contain parameters and types">>)
        /\ EmptyPayload(last.resp)
        /\ last.resp.body.requestId = last.body.o["requestId"]

\* the call has parameters but no types, and the model is not registered
C8_Witness ==
    /\ Posted /\ HasField(last.body, "requestId") /\ HasField(last.body, "call")
    /\ HasField(last.body, "model") /\ ~Registered(last.body)
    /\ HasField(last.body.o["call"], "parameters")
    /\ ~HasField(last.body.o["call"], "types")
    /\ last.resp.status = 400

\* C9: in every response of POST /api/request, error is the empty string if and only if
\* the status is 200.
C9_ErrorEmptyIffSuccess ==
    Posted => (last.resp.body.error = EmptyStr <=> last.resp.status = 200)

\* C10: a handler is invoked only for a request that passed envelope validation and
\* whose model is in the registry; a request that fails either causes no invocation.
C10_InvokedOnlyAfterValidation ==
    /\ \A i \in 1..MaxInFlight :
          inflight[i].pc = "awaiting" =>
              /\ inflight[i].calls = 1
              /\ ValidEnvelope(inflight[i].body) /\ Registered(inflight[i].body)
    /\ Posted =>
          /\ last.calls > 0 => (ValidEnvelope(last.body) /\ Registered(last.body))
          /\ (~ValidEnvelope(last.body) \/ ~Registered(last.body)) => last.calls = 0

\* a rejected request is answered while the handler of an accepted one is running
C10_Witness ==
    /\ \E i \in 1..MaxInFlight : inflight[i].pc = "awaiting"
    /\ Posted /\ last.calls = 0
    /\ ValidEnvelope(last.body) /\ ~Registered(last.body)

\* C11: the resolved handler is invoked at most once per request: after a failure of the
\* handler, typed or untyped, the failure is surfaced in the response and the handler is
\* not invoked again.
C11_NoRetry ==
    /\ \A i \in DOMAIN inflight : inflight[i].pc = "awaiting" => inflight[i].calls = 1
    /\ Posted => last.calls <= 1
    /\ (Posted /\ last.outcome.kind = "raise") =>
          /\ last.calls = 1
          /\ last.resp.status \in {400, 500}
          /\ Contains(last.resp.body.error.s, last.outcome.message)

\* a typed failure has been answered and no invocation is left running
C11_Witness ==
    /\ Posted /\ TypedFailure(last.outcome) /\ last.calls = 1
    /\ last.outcome.message # <<>>
    /\ \A i \in DOMAIN inflight : inflight[i].pc = "idle"

\* the request is refused before any handler is resolved or invoked
Refused(body) == ~ValidEnvelope(body) \/ ~Registered(body)

\* C12: while the handler invocation of one request is pending, GET /health and every
\* request that fails validation or names an unregistered model can be answered at
\* once, without the pending invocation ending first.
C12_AnsweredWhilePending ==
    (\E i \in DOMAIN inflight : inflight[i].pc = "awaiting") =>
        /\ ENABLED (HealthCheck /\ last'.op = "health" /\ inflight' = inflight)
        /\ \A body \in Bodies :
              Refused(body) =>
                  ENABLED (/\ HandleRequest(body)
                           /\ last'.op = "post" /\ last'.body = body /\ last'.calls = 0
                           /\ inflight' = inflight)

\* /health has been answered while an invocation is pending
C12_Witness ==
    /\ \E i \in DOMAIN inflight : inflight[i].pc = "awaiting"
    /\ last.op = "health" /\ last.resp.status = 200

\* the processor the registry gives the model of the request
OwnProcessor(body) == DictGet(processors, body.o["model"].s)

\* C13: with several valid requests in flight, completing in any order, each response
\* carries the requestId of its own request and the result and result type of its own
\* handler invocation, also when the requests name the same model.
C13_NoCrossTalk ==
    (Posted /\ last.calls = 1) =>
        /\ last.resp.body.requestId = last.body.o["requestId"]
        /\ last.outcome = execute_call(OwnProcessor(last.body), last.body.o["model"].s,
                                       last.body.o["call"].o["parameters"],
                                       last.body.o["call"].o["types"], last.up)
        /\ last.outcome.kind = "return" =>
              /\ last.resp.body.data = last.outcome.result
              /\ last.resp.body.datatype = last.outcome.result_type
              /\ OwnProcessor(last.body) = "processor_echo" =>
                    last.resp.body.data = last.body.o["call"].o["parameters"]

\* a request is answered while a later one, of the same model and of another requestId
\* and prompt, is still running
C13_Witness ==
    /\ Posted /\ last.calls = 1 /\ last.outcome.kind = "return"
    /\ \E i \in DOMAIN inflight :
          /\ inflight[i].pc = "awaiting"
          /\ inflight[i].model_name = last.body.o["model"].s
          /\ inflight[i].request_id # last.body.o["requestId"]
          /\ inflight[i].parameters # last.body.o["call"].o["parameters"]

\* the entry of config['models'] names a model and a processor module that imports
Loadable(entry) ==
    entry.model # <<>> /\ entry.processor # "" /\ entry.processor \in installed

\* the model ids registered at startup
RegisteredAtStartup ==
    { config[j].model : j \in {h \in DOMAIN config : Loadable(config[h])} }

\* C14: no sequence of POST /api/request and GET /health modifies the registry built at
\* startup, and GET /health always answers 200 with status "healthy" and the list of
\* the model ids registered at startup.
C14_RegistryFixed ==
    /\ processors = load_processors(config, installed)
    /\ {processors[i].key : i \in DOMAIN processors} = RegisteredAtStartup
    /\ last.op = "health" =>
          /\ last.resp.status = 200
          /\ last.resp.body.status = "healthy"
          /\ last.resp.body.models = DictKeys(processors)
          /\ {last.resp.body.models[i] : i \in DOMAIN last.resp.body.models}
                = RegisteredAtStartup

\* /health answers after requests were served, in the deployment where some entries of
\* config.yaml did not load
C14_Witness ==
    /\ last.op = "health"
    /\ Len(last.resp.body.models) < Len(config)
    /\ Len(last.resp.body.models) > 0
    /\ \A i \in DOMAIN inflight : inflight[i].pc = "idle"

\* the response is a Response Envelope: exactly the four fields
IsEnvelope(resp) ==
    /\ resp.status \in {200, 400, 500}
    /\ DOMAIN resp.body = {"requestId", "data", "datatype", "error"}

\* C15: every request that reaches handle_request receives a Response Envelope with the
\* four fields, and a request whose handler invocation terminates is eventually
\* answered: no failure of the handler leaves handle_request without a response.
C15_AlwaysAnswered ==
    /\ [](Posted => IsEnvelope(last.resp))
    /\ \A i \in 1..MaxInFlight :
          (inflight[i].pc = "awaiting") ~> (inflight[i].pc = "idle" /\ Posted)

\* an exception that is no typed API error has been answered with an envelope
C15_Witness ==
    /\ Posted /\ last.calls = 1
    /\ last.outcome.kind = "raise" /\ last.outcome.cls = "ZeroDivisionError"
    /\ IsEnvelope(last.resp) /\ last.resp.status = 500

\* C16: after load_processors, a model id is registered exactly when some entry with
\* that id, a non-empty model and a non-empty processor loads (a failing entry or a
\* skipped one stops no other), and its processor is that of the last such entry.
C16_LoadIsolated ==
    serving =>
        /\ \A i \in DOMAIN processors :
              \E j \in DOMAIN config :
                  Loadable(config[j]) /\ config[j].model = processors[i].key
        /\ \A j \in DOMAIN config :
              Loadable(config[j]) =>
                  /\ DictHas(processors, config[j].model)
                  /\ (\A h \in DOMAIN config :
                         (h > j /\ config[h].model = config[j].model)
                             => ~Loadable(config[h]))
                         => DictGet(processors, config[j].model) = config[j].processor
        /\ \A i, h \in DOMAIN processors :
              processors[i].key = processors[h].key => i = h

\* an id is listed twice with modules that load, a failing entry in between
C16_Witness ==
    /\ serving /\ Len(config) = 3
    /\ Loadable(config[1]) /\ Loadable(config[3])
    /\ config[2].model # <<>> /\ config[2].processor \notin installed
    /\ config[2].processor # ""
    /\ config[1].model = config[3].model /\ config[1].processor # config[3].processor
    /\ DictGet(processors, config[3].model) = config[3].processor

\* the upstream call that decided the outcome yielded an empty text or no image data
UpstreamEmpty ==
    \/ Len(last.outcome.sent) = 1 /\ last.up.reply = "empty"
    \/ Len(last.outcome.sent) = 2 /\ last.up.retry = "empty"

\* C17: when the upstream yields an empty text, or no image data, execute_call of the
\* GPT and Gemini handlers fails with a typed API error of code NO_RESPONSE, and the
\* response is not HTTP 200.
C17_EmptyIsNoResponse ==
    (Posted /\ last.calls = 1 /\ UpstreamEmpty) =>
        /\ TypedFailure(last.outcome)
        /\ last.outcome.error_code = "NO_RESPONSE"
        /\ last.resp.status # 200

\* C18: a request whose model id is registered to the GPT handler and contains neither
\* "gpt-5" nor "image" makes execute_call fail, and is answered with HTTP 400.
C18_UnsupportedVariantIs400 ==
    (Posted /\ last.calls = 1
            /\ OwnProcessor(last.body) = "processor_gpt_o3"
            /\ ~Contains(last.body.o["model"].s, <<"gpt-5">>)
            /\ ~Contains(last.body.o["model"].s, <<"image">>)) =>
        /\ last.outcome.kind = "raise"
        /\ last.resp.status = 400

\* C19: the prompt the GPT handler sends upstream, for text and for image generation,
\* is the whole first parameter when that is a string, and the newline-join of its
\* elements when it is a list of strings.
C19_PromptSentWhole ==
    (Posted /\ last.calls = 1
            /\ OwnProcessor(last.body) = "processor_gpt_o3"
            /\ last.outcome.sent # <<>>) =>
        LET parameter == last.body.o["call"].o["parameters"].a[1] IN
        last.outcome.sent[1].prompt =
            IF parameter.k = "str" THEN parameter.s ELSE JoinFrom(parameter.a, 1)

\* the parameters list is empty, the types list is empty, or types[0] is neither
\* "string" nor "string[]"
BadParameters(call) ==
    \/ Len(call.o["parameters"].a) = 0
    \/ Len(call.o["types"].a) = 0
    \/ call.o["types"].a[1] \notin {TypeString, TypeStringArray}

\* C20: for every model id served by the GPT or the Gemini handler, execute_call with
\* an empty parameters list, an empty types list or a types[0] other than "string" and
\* "string[]" fails with a typed API error of code INVALID_PARAMETERS and has made no
\* upstream call.
C20_BadParametersTyped ==
    (Posted /\ last.calls = 1
            /\ OwnProcessor(last.body) \in {"processor_gpt_o3", "processor_gemini"}
            /\ BadParameters(last.body.o["call"])) =>
        /\ TypedFailure(last.outcome)
        /\ last.outcome.error_code = "INVALID_PARAMETERS"
        /\ last.outcome.sent = <<>>

\* the upstream model the id stands for: the most specific name it contains
MostSpecific(model) ==
    IF Contains(model, <<"gpt-5", "-mini">>) THEN <<"gpt-5", "-mini">>
    ELSE IF Contains(model, <<"gpt-5", "-nano">>) THEN <<"gpt-5", "-nano">>
    ELSE IF Contains(model, <<"gpt-5">>) THEN <<"gpt-5">>
    ELSE IF Contains(model, <<"google-gemini-2_5-flash", "-lite">>)
    THEN <<"models/gemini-2.5-flash", "-lite">>
    ELSE IF Contains(model, <<"google-gemini-2_5-flash">>)
    THEN <<"models/gemini-2.5-flash">>
    ELSE IF Contains(model, <<"google-gemini-2_5-pro">>) THEN <<"models/gemini-2.5-pro">>
    ELSE IF Contains(model, <<"google-gemini-1_5-pro">>)
    THEN <<"models/gemini-1.5-pro-latest">>
    ELSE <<"models/gemini-1.5-flash-latest">>

\* C21: the upstream model a text generation call is made with is the most specific one
\* the model id names: "gpt-5-mini" for an id containing it, "gpt-5-nano" likewise,
\* "gpt-5" for an id with "gpt-5" and neither suffix, and the flash-lite model, not the
\* flash model, for an id containing "google-gemini-2_5-flash-lite".
C21_MostSpecificModel ==
    (Posted /\ last.calls = 1 /\ last.outcome.sent # <<>>) =>
        last.outcome.sent[1].model = MostSpecific(last.body.o["model"].s)

====
